---- MODULE Spec2Model ----
(***************************************************************************)
(* Model of src/util/Scalar.hpp (PutkaRTS): the unit-checked scalar value. *)
(*                                                                         *)
(* A Scalar<U> is a double tagged, in its type, with a unit U.  The model  *)
(* has two layers, as the code has:                                        *)
(*   - the build-time layer: which operator overloads accept which operand *)
(*     types and which result type they declare (the Accept and Type       *)
(*     operators below);                                                   *)
(*   - the run-time layer: what the accepted operator does to the          *)
(*     magnitudes, in a small binary floating-point format with the        *)
(*     structure of IEEE 754 double (signed zeros, subnormals, round to    *)
(*     nearest even, overflow to infinity, NaN).                           *)
(* Each action is one expression: it draws the operand types, resolves the *)
(* overload, and, when the expression is accepted, draws the operand       *)
(* magnitudes and runs the operator.  A rejected expression never runs, so *)
(* it has no magnitudes.                                                   *)
(***************************************************************************)
EXTENDS Integers, FiniteSets

(***************************************************************************)
(* Bounds of the model.                                                    *)
(***************************************************************************)
\* Operand units have degree at most MaxExp: their exponents' absolute
\* values sum to at most MaxExp.
MaxExp == 1
\* Bits of precision of the floating-point format (53 in a double).
MantBits == 2
\* The smallest positive magnitude (the subnormal spacing) is 2^-FracBits.
FracBits == 1
\* Number of binades above the subnormal range (the exponent range).
MaxShift == 3

(***************************************************************************)
(* The type T = double (line 32), scaled down.  A finite magnitude is      *)
(* n * 2^-FracBits for a natural n of the grid: n < 2^MantBits (zero and   *)
(* the lowest binades, spacing 1) or n = m * 2^j with a full mantissa m    *)
(* and 1 <= j <= MaxShift.                                                 *)
(***************************************************************************)
Pow2(k) == 2 ^ k

One == Pow2(FracBits)

MaxMag == (Pow2(MantBits) - 1) * Pow2(MaxShift)

Mags ==
    (0 .. (Pow2(MantBits) - 1)) \cup
    { m * Pow2(j) : m \in Pow2(MantBits - 1) .. (Pow2(MantBits) - 1), j \in 1 .. MaxShift }

NaN == [k |-> "nan", s |-> 0, n |-> 0]

Inf(sgn) == [k |-> "inf", s |-> sgn, n |-> 0]

Fin(sgn, mag) == [k |-> "fin", s |-> sgn, n |-> mag]

Doubles == {NaN} \cup { Inf(sgn) : sgn \in {0, 1} } \cup { Fin(sgn, mag) : sgn \in {0, 1}, mag \in Mags }

\* The double nearest to the literal v (an integer of the model's range).
Lit(v) == IF v < 0 THEN Fin(1, (0 - v) * One) ELSE Fin(0, v * One)

IsFin(a) == a.k = "fin"

IsNan(a) == a.k = "nan"

IsZeroMag(a) == a.k = "fin" /\ a.n = 0

\* The binade of the non-negative rational p/q (in grid units): the least j
\* with p/q < 2^(MantBits + j); the grid's spacing there is 2^j.
Binade(p, q) ==
    CHOOSE j \in 0 .. (2 * (MantBits + MaxShift) + FracBits + 2) :
        /\ p < q * Pow2(MantBits + j)
        /\ (j = 0 \/ p >= q * Pow2(MantBits + j - 1))

\* Round the non-negative rational p/q (in grid units) to the nearest grid
\* point, ties to the even mantissa; the result may exceed MaxMag (overflow).
RoundMag(p, q) ==
    LET j == Binade(p, q)
        d == q * Pow2(j)
        f == p \div d
        r == p - f * d
        up == (2 * r > d) \/ (2 * r = d /\ f % 2 = 1)
    IN  (IF up THEN f + 1 ELSE f) * Pow2(j)

\* The double for sign sgn and exact magnitude p/q: rounded, or infinite on
\* overflow.
Rounded(sgn, p, q) ==
    LET m == RoundMag(p, q)
    IN  IF m > MaxMag THEN Inf(sgn) ELSE Fin(sgn, m)

\* The signed integer (in grid units) of a finite double.
Val(a) == IF a.s = 1 THEN 0 - a.n ELSE a.n

Abs(i) == IF i < 0 THEN 0 - i ELSE i

Xor(s1, s2) == IF s1 = s2 THEN 0 ELSE 1

\* Unary minus on a double: flips the sign bit (NaN stays NaN).
FNeg(a) == IF IsNan(a) THEN NaN ELSE [a EXCEPT !.s = 1 - a.s]

\* a + b on doubles.
FAdd(a, b) ==
    IF IsNan(a) \/ IsNan(b) THEN NaN
    ELSE IF a.k = "inf" /\ b.k = "inf" THEN (IF a.s = b.s THEN a ELSE NaN)
    ELSE IF a.k = "inf" THEN a
    ELSE IF b.k = "inf" THEN b
    ELSE LET v == Val(a) + Val(b)
         IN  IF v = 0 THEN Fin(IF a.s = 1 /\ b.s = 1 THEN 1 ELSE 0, 0)
             ELSE Rounded(IF v < 0 THEN 1 ELSE 0, Abs(v), 1)

\* a - b on doubles.
FSub(a, b) == FAdd(a, FNeg(b))

\* a * b on doubles.
FMul(a, b) ==
    IF IsNan(a) \/ IsNan(b) THEN NaN
    ELSE IF a.k = "inf" \/ b.k = "inf"
         THEN (IF IsZeroMag(a) \/ IsZeroMag(b) THEN NaN ELSE Inf(Xor(a.s, b.s)))
    ELSE Rounded(Xor(a.s, b.s), a.n * b.n, One)

\* a / b on doubles.
FDiv(a, b) ==
    IF IsNan(a) \/ IsNan(b) THEN NaN
    ELSE IF a.k = "inf" THEN (IF b.k = "inf" THEN NaN ELSE Inf(Xor(a.s, b.s)))
    ELSE IF b.k = "inf" THEN Fin(Xor(a.s, b.s), 0)
    ELSE IF b.n = 0 THEN (IF a.n = 0 THEN NaN ELSE Inf(Xor(a.s, b.s)))
    ELSE Rounded(Xor(a.s, b.s), a.n * One, b.n)

\* The comparisons of doubles: every ordered comparison with a NaN is
\* false, -0 equals +0.
FLt(a, b) ==
    /\ ~IsNan(a)
    /\ ~IsNan(b)
    /\ IF a.k = "inf" THEN a.s = 1 /\ ~(b.k = "inf" /\ b.s = 1)
       ELSE IF b.k = "inf" THEN b.s = 0
       ELSE Val(a) < Val(b)

FEq(a, b) ==
    /\ ~IsNan(a)
    /\ ~IsNan(b)
    /\ IF a.k = "inf" \/ b.k = "inf" THEN a = b ELSE Val(a) = Val(b)

FGt(a, b) == FLt(b, a)

FLe(a, b) == FLt(a, b) \/ FEq(a, b)

FGe(a, b) == FLt(b, a) \/ FEq(a, b)

FNe(a, b) == ~FEq(a, b)

\* std::sqrt: the grid point nearest to the exact root; NaN below zero,
\* sqrt(-0) = -0, sqrt(+inf) = +inf.
FSqrt(a) ==
    IF IsNan(a) THEN NaN
    ELSE IF IsZeroMag(a) THEN a
    ELSE IF a.s = 1 THEN NaN
    ELSE IF a.k = "inf" THEN a
    ELSE LET sq == a.n * One
             lo == CHOOSE r \in Mags :
                       r * r <= sq /\ \A r2 \in Mags : r2 * r2 <= sq => r2 <= r
             hi == CHOOSE r \in Mags :
                       r * r >= sq /\ \A r2 \in Mags : r2 * r2 >= sq => r2 >= r
             evenLo == RoundMag(lo + hi, 2) = lo
         IN  IF (lo + hi) * (lo + hi) > 4 * sq \/ ((lo + hi) * (lo + hi) = 4 * sq /\ evenLo)
             THEN Fin(0, lo) ELSE Fin(0, hi)

\* fmod(a, b): the exact remainder a - n*b with n the quotient truncated
\* toward zero; it has the dividend's sign.  NaN for an infinite dividend or
\* a zero divisor; a itself for an infinite divisor.
FMod(a, b) ==
    IF IsNan(a) \/ IsNan(b) THEN NaN
    ELSE IF a.k = "inf" \/ IsZeroMag(b) THEN NaN
    ELSE IF b.k = "inf" THEN a
    ELSE Fin(a.s, a.n % b.n)


(***************************************************************************)
(* The unit algebra of SIUnit.hpp, which Scalar.hpp includes at line 25: a *)
(* unit is a vector of integer exponents, one for each base dimension.     *)
(***************************************************************************)
Dims == {"m", "s"}

Degree(U1) == Abs(U1["m"]) + Abs(U1["s"])

\* The units of the operands written in an expression.
Units == { U1 \in [Dims -> (0 - MaxExp) .. MaxExp] : Degree(U1) <= MaxExp }

\* SIUnit::Unit<>, the default argument of Scalar (line 30): all exponents 0.
Dimensionless == [d \in Dims |-> 0]

SIUnitAdd(U1, U2) == [d \in Dims |-> U1[d] + U2[d]]

SIUnitSub(U1, U2) == [d \in Dims |-> U1[d] - U2[d]]

SIUnitMul(U1, n) == [d \in Dims |-> U1[d] * n]

\* Integer division as a build-time constant expression does it: toward 0.
TruncDiv(e, n) == IF e >= 0 THEN e \div n ELSE 0 - ((0 - e) \div n)

\* What SIUnitDiv does with an exponent that n does not divide is not fixed
\* by Scalar.hpp: either the type is ill-formed ("exact":
\* the build fails there) or the quotient is truncated ("trunc").
DivModes == {"exact", "trunc"}

SIUnitDivDefined(U1, n, mode) == mode = "trunc" \/ \A d \in Dims : U1[d] % n = 0

SIUnitDiv(U1, n) == [d \in Dims |-> TruncDiv(U1[d], n)]

(***************************************************************************)
(* Build time: overload resolution.                                        *)
(***************************************************************************)
\* Mutant of ConvertsTo: as if Scalar converted to double (operator T), so
\* that any Scalar reached any other through the constructor from double.
ConvertsViaDouble(From, To) == TRUE

\* Whether an argument of type Scalar<From> binds to a parameter of type
\* Scalar<To> const&.  Scalar has a copy constructor (same type), a
\* constructor from double, and one conversion function, to a pointer to
\* member (lines 88-91), which no standard conversion turns into a double:
\* only the identity is left.
ConvertsTo(From, To) == From = To

\* operator< ... operator!=, operator+, operator-, operator+=, operator-=
\* and mod are members of Scalar<U1> whose parameter is Type.
AcceptsType(U1, U2) == ConvertsTo(U2, U1)

\* operator* and operator/ are member templates over the unit U2 of their
\* parameter: U2 is deduced from any Scalar.
AcceptsAnyUnit(U1, U2) == TRUE

\* Mutant of AcceptsMulAssign: as if operator*= were a template over the unit
\* of its parameter, like operator*.
AcceptsMulAssignAny(U1, U2) == TRUE

\* operator*= and operator/= take a Scalar<> and assign the product (the
\* quotient), of type Scalar<SIUnitAdd(U1, Unit<>)> (Scalar<SIUnitSub(U1,
\* Unit<>)>), to *this.
AcceptsMulAssign(U1, U2) ==
    ConvertsTo(U2, Dimensionless) /\ ConvertsTo(SIUnitAdd(U1, Dimensionless), U1)

AcceptsDivAssign(U1, U2) ==
    ConvertsTo(U2, Dimensionless) /\ ConvertsTo(SIUnitSub(U1, Dimensionless), U1)

\* Mutant of AcceptsSqrtHelper: as if the helper were a template over the
\* unit of its parameter.
AcceptsSqrtHelperAny(V, U1) == TRUE

\* _sqrtHelper<V> takes a Scalar<SIUnitMul(V, 2)> const&.
AcceptsSqrtHelper(V, U1) == ConvertsTo(U1, SIUnitMul(V, 2))

\* sqrt(Scalar<U1>) declares the result Scalar<SIUnitDiv(U1, 2)> and passes
\* its argument to _sqrtHelper<SIUnitDiv(U1, 2)>.
AcceptsSqrt(U1, mode) ==
    SIUnitDivDefined(U1, 2, mode) /\ AcceptsSqrtHelper(SIUnitDiv(U1, 2), U1)


(***************************************************************************)
(* Run time: the members of Scalar on the magnitude `value`.               *)
(***************************************************************************)
zero == Fin(0, 0)

nan == NaN

infP == Inf(0)

infN == Inf(1)

inf == infP

\* Mutant of infDir: the test written as dir >= 0.
infDirGe(dir) == IF FGe(dir, Fin(0, 0)) THEN infP ELSE infN

infDir(dir) == IF FLt(dir, Fin(0, 0)) THEN infN ELSE infP

isNaN(value) == FNe(value, value)

isInf(value) == FEq(value, infP) \/ FEq(value, infN)

isZero(value) == FEq(value, Fin(0, 0))

strip(value) == value

opNeg(value) == FNeg(value)

\* The conversion used in conditions: a non-null pointer iff value is true,
\* that is, iff value != 0.
opBool(value) == FNe(value, Fin(0, 0))

opNot(value) == ~FNe(value, Fin(0, 0))

opLt(value, tvalue) == FLt(value, tvalue)

opGt(value, tvalue) == FGt(value, tvalue)

opLe(value, tvalue) == FLe(value, tvalue)

opGe(value, tvalue) == FGe(value, tvalue)

\* Mutant of opEq: equality of the representations.
opEqBits(value, tvalue) == value = tvalue

opEq(value, tvalue) == FEq(value, tvalue)

opNe(value, tvalue) == FNe(value, tvalue)

opAdd(value, tvalue) == FAdd(value, tvalue)

opSub(value, tvalue) == FSub(value, tvalue)

\* Mutant of opMul: the sum for the product.
opMulAsAdd(value, tvalue) == FAdd(value, tvalue)

opMul(value, tvalue) == FMul(value, tvalue)

\* Mutants of opDiv: the product for the quotient; a division that guards
\* against a zero divisor.
opDivAsMul(value, tvalue) == FMul(value, tvalue)

opDivGuarded(value, tvalue) == IF FEq(tvalue, Fin(0, 0)) THEN Fin(0, 0) ELSE FDiv(value, tvalue)

opDiv(value, tvalue) == FDiv(value, tvalue)

\* Mutant of pow2: the double for the square.
pow2AsTwice(value) == FAdd(value, value)

pow2(value) == opMul(value, value)

abs(value) == IF FLt(value, Fin(0, 0)) THEN FNeg(value) ELSE value

\* Mutant of mod: the remainder of the floored quotient, which has the sign
\* of the divisor.
modFloored(value, divisor) ==
    IF IsFin(value) /\ IsFin(divisor) /\ divisor.n # 0
    THEN LET r == value.n % divisor.n
         IN  IF r # 0 /\ value.s # divisor.s THEN Fin(divisor.s, divisor.n - r)
             ELSE Fin(divisor.s, r)
    ELSE FMod(value, divisor)

mod(value, divisor) == FMod(value, divisor)

sqrtHelper(value) == FSqrt(value)

sqrt(value) == sqrtHelper(value)

(***************************************************************************)
(* The state: one expression and its outcome.                              *)
(*   op    the operation of the expression ("none" before it is chosen)    *)
(*   x     the left operand (the object, or the argument of a function) as *)
(*         it is before the operation: its unit and its magnitude          *)
(*   t     the right operand, if the operation has one                     *)
(*   ok    whether the build accepts the expression                        *)
(*   res   the value of the expression: a Scalar or a bool                 *)
(*   self  the left operand after the operation                            *)
(*   targ  the right operand after the operation; the operands of an       *)
(*         expression are distinct objects                                 *)
(*   inner for sqrt(y.pow2()): the operand y of the inner pow2             *)
(*   div   for sqrt: the behaviour of SIUnitDiv in this build              *)
(***************************************************************************)
VARIABLES op, x, t, ok, res, self, targ, inner, div

vars == <<op, x, t, ok, res, self, targ, inner, div>>

\* No magnitude: the operand of an expression that is never run.
NoVal == [k |-> "none", s |-> 0, n |-> 0]

Scalar(U1, value) == [u |-> U1, v |-> value]

NoArg == Scalar(Dimensionless, NoVal)

NoRes == [kind |-> "none", u |-> Dimensionless, v |-> NoVal, b |-> FALSE]

ScalarRes(U1, value) == [kind |-> "scalar", u |-> U1, v |-> value, b |-> FALSE]

BoolRes(b) == [kind |-> "bool", u |-> Dimensionless, v |-> NoVal, b |-> b]

Init ==
    /\ op = "none"
    /\ x = NoArg
    /\ t = NoArg
    /\ ok = FALSE
    /\ res = NoRes
    /\ self = NoArg
    /\ targ = NoArg
    /\ inner = NoArg
    /\ div = "none"

\* The expression is rejected by the build: nothing runs.
Rejected(name, U1, U2) ==
    /\ op' = name
    /\ x' = Scalar(U1, NoVal)
    /\ t' = Scalar(U2, NoVal)
    /\ ok' = FALSE
    /\ res' = NoRes
    /\ self' = Scalar(U1, NoVal)
    /\ targ' = Scalar(U2, NoVal)

\* The expression is accepted and run: its value is r, and *this ends as
\* after.  Every parameter is a reference to const or a copy: no member
\* writes to its right operand.
Ran(name, xs, ts, r, after) ==
    /\ op' = name
    /\ x' = xs
    /\ t' = ts
    /\ ok' = TRUE
    /\ res' = r
    /\ self' = after
    /\ targ' = ts

\* x < t, for a t that binds to Type const&: value < t.value.
Less ==
    /\ op = "none"
    /\ \E U1 \in Units, U2 \in Units :
        IF AcceptsType(U1, U2)
        THEN \E a \in Doubles, b \in Doubles :
                Ran("<", Scalar(U1, a), Scalar(U2, b), BoolRes(opLt(a, b)),
                    Scalar(U1, a))
        ELSE Rejected("<", U1, U2)
    /\ UNCHANGED <<inner, div>>

\* x > t.
Greater ==
    /\ op = "none"
    /\ \E U1 \in Units, U2 \in Units :
        IF AcceptsType(U1, U2)
        THEN \E a \in Doubles, b \in Doubles :
                Ran(">", Scalar(U1, a), Scalar(U2, b), BoolRes(opGt(a, b)),
                    Scalar(U1, a))
        ELSE Rejected(">", U1, U2)
    /\ UNCHANGED <<inner, div>>

\* x <= t.
LessEq ==
    /\ op = "none"
    /\ \E U1 \in Units, U2 \in Units :
        IF AcceptsType(U1, U2)
        THEN \E a \in Doubles, b \in Doubles :
                Ran("<=", Scalar(U1, a), Scalar(U2, b), BoolRes(opLe(a, b)),
                    Scalar(U1, a))
        ELSE Rejected("<=", U1, U2)
    /\ UNCHANGED <<inner, div>>

\* x >= t.
GreaterEq ==
    /\ op = "none"
    /\ \E U1 \in Units, U2 \in Units :
        IF AcceptsType(U1, U2)
        THEN \E a \in Doubles, b \in Doubles :
                Ran(">=", Scalar(U1, a), Scalar(U2, b), BoolRes(opGe(a, b)),
                    Scalar(U1, a))
        ELSE Rejected(">=", U1, U2)
    /\ UNCHANGED <<inner, div>>

\* x == t.
Equal ==
    /\ op = "none"
    /\ \E U1 \in Units, U2 \in Units :
        IF AcceptsType(U1, U2)
        THEN \E a \in Doubles, b \in Doubles :
                Ran("==", Scalar(U1, a), Scalar(U2, b), BoolRes(opEq(a, b)),
                    Scalar(U1, a))
        ELSE Rejected("==", U1, U2)
    /\ UNCHANGED <<inner, div>>

\* x != t.
NotEqual ==
    /\ op = "none"
    /\ \E U1 \in Units, U2 \in Units :
        IF AcceptsType(U1, U2)
        THEN \E a \in Doubles, b \in Doubles :
                Ran("!=", Scalar(U1, a), Scalar(U2, b), BoolRes(opNe(a, b)),
                    Scalar(U1, a))
        ELSE Rejected("!=", U1, U2)
    /\ UNCHANGED <<inner, div>>

\* x + t: Type(value + t.value).
Plus ==
    /\ op = "none"
    /\ \E U1 \in Units, U2 \in Units :
        IF AcceptsType(U1, U2)
        THEN \E a \in Doubles, b \in Doubles :
                Ran("+", Scalar(U1, a), Scalar(U2, b), ScalarRes(U1, opAdd(a, b)),
                    Scalar(U1, a))
        ELSE Rejected("+", U1, U2)
    /\ UNCHANGED <<inner, div>>

\* x - t: Type(value - t.value).
Minus ==
    /\ op = "none"
    /\ \E U1 \in Units, U2 \in Units :
        IF AcceptsType(U1, U2)
        THEN \E a \in Doubles, b \in Doubles :
                Ran("-", Scalar(U1, a), Scalar(U2, b), ScalarRes(U1, opSub(a, b)),
                    Scalar(U1, a))
        ELSE Rejected("-", U1, U2)
    /\ UNCHANGED <<inner, div>>

\* x.mod(t): Type(fmod(value, divisor.value)); the divisor is a copy.
Mod ==
    /\ op = "none"
    /\ \E U1 \in Units, U2 \in Units :
        IF AcceptsType(U1, U2)
        THEN \E a \in Doubles, b \in Doubles :
                Ran("mod", Scalar(U1, a), Scalar(U2, b), ScalarRes(U1, mod(a, b)),
                    Scalar(U1, a))
        ELSE Rejected("mod", U1, U2)
    /\ UNCHANGED <<inner, div>>

\* x += t: *this = *this + t; return *this.
PlusAssign ==
    /\ op = "none"
    /\ \E U1 \in Units, U2 \in Units :
        IF AcceptsType(U1, U2)
        THEN \E a \in Doubles, b \in Doubles :
                Ran("+=", Scalar(U1, a), Scalar(U2, b), ScalarRes(U1, opAdd(a, b)),
                    Scalar(U1, opAdd(a, b)))
        ELSE Rejected("+=", U1, U2)
    /\ UNCHANGED <<inner, div>>

\* x -= t: *this = *this - t; return *this.
MinusAssign ==
    /\ op = "none"
    /\ \E U1 \in Units, U2 \in Units :
        IF AcceptsType(U1, U2)
        THEN \E a \in Doubles, b \in Doubles :
                Ran("-=", Scalar(U1, a), Scalar(U2, b), ScalarRes(U1, opSub(a, b)),
                    Scalar(U1, opSub(a, b)))
        ELSE Rejected("-=", U1, U2)
    /\ UNCHANGED <<inner, div>>

\* x * t: Scalar<SIUnitAdd(U1, U2)>(value * t.value).
Times ==
    /\ op = "none"
    /\ \E U1 \in Units, U2 \in Units :
        IF AcceptsAnyUnit(U1, U2)
        THEN \E a \in Doubles, b \in Doubles :
                Ran("*", Scalar(U1, a), Scalar(U2, b),
                    ScalarRes(SIUnitAdd(U1, U2), opMul(a, b)), Scalar(U1, a))
        ELSE Rejected("*", U1, U2)
    /\ UNCHANGED <<inner, div>>

\* x / t: Scalar<SIUnitSub(U1, U2)>(value / t.value).
Divide ==
    /\ op = "none"
    /\ \E U1 \in Units, U2 \in Units :
        IF AcceptsAnyUnit(U1, U2)
        THEN \E a \in Doubles, b \in Doubles :
                Ran("/", Scalar(U1, a), Scalar(U2, b),
                    ScalarRes(SIUnitSub(U1, U2), opDiv(a, b)), Scalar(U1, a))
        ELSE Rejected("/", U1, U2)
    /\ UNCHANGED <<inner, div>>

\* x *= t: *this = *this * t; return *this.
TimesAssign ==
    /\ op = "none"
    /\ \E U1 \in Units, U2 \in Units :
        IF AcceptsMulAssign(U1, U2)
        THEN \E a \in Doubles, b \in Doubles :
                Ran("*=", Scalar(U1, a), Scalar(U2, b), ScalarRes(U1, opMul(a, b)),
                    Scalar(U1, opMul(a, b)))
        ELSE Rejected("*=", U1, U2)
    /\ UNCHANGED <<inner, div>>

\* x /= t: *this = *this / t; return *this.
DivideAssign ==
    /\ op = "none"
    /\ \E U1 \in Units, U2 \in Units :
        IF AcceptsDivAssign(U1, U2)
        THEN \E a \in Doubles, b \in Doubles :
                Ran("/=", Scalar(U1, a), Scalar(U2, b), ScalarRes(U1, opDiv(a, b)),
                    Scalar(U1, opDiv(a, b)))
        ELSE Rejected("/=", U1, U2)
    /\ UNCHANGED <<inner, div>>


\* -x: Type(-value).
Negate ==
    /\ op = "none"
    /\ \E U1 \in Units, a \in Doubles :
        Ran("neg", Scalar(U1, a), NoArg, ScalarRes(U1, opNeg(a)), Scalar(U1, a))
    /\ UNCHANGED <<inner, div>>

\* x.abs().
AbsExpr ==
    /\ op = "none"
    /\ \E U1 \in Units, a \in Doubles :
        Ran("abs", Scalar(U1, a), NoArg, ScalarRes(U1, abs(a)), Scalar(U1, a))
    /\ UNCHANGED <<inner, div>>

\* Scalar<U1>::inf(dir), a static member: x is dir.
InfDirExpr ==
    /\ op = "none"
    /\ \E U1 \in Units, a \in Doubles :
        Ran("inf(dir)", Scalar(U1, a), NoArg, ScalarRes(U1, infDir(a)), Scalar(U1, a))
    /\ UNCHANGED <<inner, div>>

\* Scalar<U1>::zero().
ZeroExpr ==
    /\ op = "none"
    /\ \E U1 \in Units :
        Ran("zero()", NoArg, NoArg, ScalarRes(U1, zero), NoArg)
    /\ UNCHANGED <<inner, div>>

\* Scalar<U1>::nan().
NanExpr ==
    /\ op = "none"
    /\ \E U1 \in Units :
        Ran("nan()", NoArg, NoArg, ScalarRes(U1, nan), NoArg)
    /\ UNCHANGED <<inner, div>>

\* Scalar<U1>::infP().
InfPExpr ==
    /\ op = "none"
    /\ \E U1 \in Units :
        Ran("infP()", NoArg, NoArg, ScalarRes(U1, infP), NoArg)
    /\ UNCHANGED <<inner, div>>

\* Scalar<U1>::infN().
InfNExpr ==
    /\ op = "none"
    /\ \E U1 \in Units :
        Ran("infN()", NoArg, NoArg, ScalarRes(U1, infN), NoArg)
    /\ UNCHANGED <<inner, div>>

\* Scalar<U1>::inf().
InfExpr ==
    /\ op = "none"
    /\ \E U1 \in Units :
        Ran("inf()", NoArg, NoArg, ScalarRes(U1, inf), NoArg)
    /\ UNCHANGED <<inner, div>>

\* x.isNaN().
IsNaNExpr ==
    /\ op = "none"
    /\ \E U1 \in Units, a \in Doubles :
        Ran("isNaN", Scalar(U1, a), NoArg, BoolRes(isNaN(a)), Scalar(U1, a))
    /\ UNCHANGED <<inner, div>>

\* x.isInf().
IsInfExpr ==
    /\ op = "none"
    /\ \E U1 \in Units, a \in Doubles :
        Ran("isInf", Scalar(U1, a), NoArg, BoolRes(isInf(a)), Scalar(U1, a))
    /\ UNCHANGED <<inner, div>>

\* x.isZero().
IsZeroExpr ==
    /\ op = "none"
    /\ \E U1 \in Units, a \in Doubles :
        Ran("isZero", Scalar(U1, a), NoArg, BoolRes(isZero(a)), Scalar(U1, a))
    /\ UNCHANGED <<inner, div>>

\* x in a condition.
BoolExpr ==
    /\ op = "none"
    /\ \E U1 \in Units, a \in Doubles :
        Ran("bool", Scalar(U1, a), NoArg, BoolRes(opBool(a)), Scalar(U1, a))
    /\ UNCHANGED <<inner, div>>

\* !x.
NotExpr ==
    /\ op = "none"
    /\ \E U1 \in Units, a \in Doubles :
        Ran("!", Scalar(U1, a), NoArg, BoolRes(opNot(a)), Scalar(U1, a))
    /\ UNCHANGED <<inner, div>>

\* x.strip(): a Scalar<> of the same magnitude.
StripExpr ==
    /\ op = "none"
    /\ \E U1 \in Units, a \in Doubles :
        Ran("strip", Scalar(U1, a), NoArg, ScalarRes(Dimensionless, strip(a)), Scalar(U1, a))
    /\ UNCHANGED <<inner, div>>

\* x.pow2(): the product of the object with itself, of type Scalar<SIUnitAdd(U1, U1)>.
Pow2Expr ==
    /\ op = "none"
    /\ \E U1 \in Units :
        IF AcceptsAnyUnit(U1, U1)
        THEN \E a \in Doubles :
                Ran("pow2", Scalar(U1, a), NoArg, ScalarRes(SIUnitAdd(U1, U1), pow2(a)),
                    Scalar(U1, a))
        ELSE Rejected("pow2", U1, Dimensionless)
    /\ UNCHANGED <<inner, div>>

\* sqrt(y) for an operand y of unit U1 and magnitude a, in a build whose
\* SIUnitDiv behaves as mode; from is the operand of the pow2 that made y.
SqrtOf(U1, a, mode, from) ==
    /\ IF AcceptsSqrt(U1, mode)
       THEN Ran("sqrt", Scalar(U1, a), NoArg, ScalarRes(SIUnitDiv(U1, 2), sqrt(a)),
                Scalar(U1, a))
       ELSE Rejected("sqrt", U1, Dimensionless)
    /\ inner' = from
    /\ div' = mode

\* sqrt(x) on a variable x.
SqrtExpr ==
    /\ op = "none"
    /\ \E U1 \in Units, mode \in DivModes :
        IF AcceptsSqrt(U1, mode)
        THEN \E a \in Doubles : SqrtOf(U1, a, mode, NoArg)
        ELSE SqrtOf(U1, NoVal, mode, NoArg)

\* sqrt(y.pow2()): sqrt on the value of a pow2.
SqrtOfPow2 ==
    /\ op = "pow2"
    /\ ok
    /\ \E mode \in DivModes : SqrtOf(res.u, res.v, mode, x)

Next ==
    \/ Less \/ Greater \/ LessEq \/ GreaterEq \/ Equal \/ NotEqual
    \/ Plus \/ Minus \/ Mod \/ PlusAssign \/ MinusAssign
    \/ Times \/ Divide \/ TimesAssign \/ DivideAssign
    \/ Negate \/ AbsExpr \/ InfDirExpr
    \/ ZeroExpr \/ NanExpr \/ InfPExpr \/ InfNExpr \/ InfExpr
    \/ IsNaNExpr \/ IsInfExpr \/ IsZeroExpr \/ BoolExpr \/ NotExpr
    \/ StripExpr \/ Pow2Expr \/ SqrtExpr \/ SqrtOfPow2

Spec == Init /\ [][Next]_vars


(***************************************************************************)
(* Properties.                                                             *)
(***************************************************************************)
L == [d \in Dims |-> IF d = "m" THEN 1 ELSE 0]

T == [d \in Dims |-> IF d = "s" THEN 1 ELSE 0]

SameUnitOps == {"+", "-", "==", "!=", "<", ">", "<=", ">=", "mod", "+=", "-="}

\* C1: unit soundness.  An expression that adds, subtracts, compares, takes
\* mod of or compound-assigns (+=, -=) two Scalars of different units is
\* rejected and never runs; such an expression is accepted only for operands
\* of one unit, and the result of +, - and mod has that unit.
C1_UnitSoundness ==
    op \in SameUnitOps =>
        /\ x.u # t.u => ~ok /\ res = NoRes /\ self.v = NoVal
        /\ ok => x.u = t.u
        /\ ok /\ op \in {"+", "-", "mod"} => res.kind = "scalar" /\ res.u = x.u

C1_Witness == op = "==" /\ x.u = L /\ t.u = T /\ ~ok

\* C2: multiplicative closure.  Scalar<U1>(a) * Scalar<U2>(b) is accepted
\* for all units, has the unit whose exponents are the sums of the operands'
\* exponents, and, for finite a and b, the magnitude a*b (the double product).
C2_MulClosure ==
    op = "*" =>
        /\ ok
        /\ res.kind = "scalar"
        /\ \A d \in Dims : res.u[d] = x.u[d] + t.u[d]
        /\ IsFin(x.v) /\ IsFin(t.v) => res.v = Rounded(Xor(x.v.s, t.v.s), x.v.n * t.v.n, One)

C2_Witness ==
    /\ op = "*"
    /\ ok
    /\ x = Scalar(L, Lit(2))
    /\ t = Scalar(SIUnitSub(Dimensionless, T), Lit(3))
    /\ res = ScalarRes(SIUnitSub(L, T), Lit(6))

\* C3 as stated: for every unit U and every non-zero magnitude a (a number:
\* NaN is left aside), Scalar<U>(a) / Scalar<U>(a) is dimensionless with
\* magnitude 1.
C3_Original ==
    op = "/" /\ x = t /\ FNe(x.v, zero) /\ ~IsNan(x.v) =>
        /\ ok
        /\ \A d \in Dims : res.u[d] = 0
        /\ res.v = Lit(1)

\* C3, amended: for every unit U and every finite non-zero magnitude a,
\* Scalar<U>(a) / Scalar<U>(a) is accepted, is dimensionless and has
\* magnitude 1; for an infinite or NaN a the quotient is NaN.
C3_DivInverse ==
    op = "/" /\ x = t =>
        /\ ok
        /\ res.kind = "scalar"
        /\ \A d \in Dims : res.u[d] = 0
        /\ IsFin(x.v) /\ x.v.n # 0 => res.v = Lit(1)
        /\ ~IsFin(x.v) => res.v = NaN

C3_Witness ==
    /\ op = "/"
    /\ ok
    /\ x = Scalar(L, Lit(3))
    /\ t = x
    /\ res = ScalarRes(Dimensionless, Lit(1))


AllEven(U1) == \A d \in Dims : U1[d] % 2 = 0

\* C4: sqrt(x) on a Scalar<U> is accepted if and only if every exponent of U
\* is even, whatever SIUnitDiv does with an odd exponent; when accepted, the
\* result's unit has every exponent of U halved; when an exponent is odd the
\* expression is rejected and yields no value.
C4_SqrtEvenOnly ==
    op = "sqrt" =>
        /\ ok <=> AllEven(x.u)
        /\ ok => res.kind = "scalar" /\ \A d \in Dims : 2 * res.u[d] = x.u[d]
        /\ ~ok => res = NoRes

C4_Witness ==
    /\ op = "sqrt"
    /\ ok
    /\ div = "trunc"
    /\ x = Scalar(SIUnitAdd(L, L), Lit(4))
    /\ res = ScalarRes(L, Lit(2))

\* The operand y of the pow2 in sqrt(y.pow2()), when the state is the
\* outcome of such an expression.
OfPow2 == op = "sqrt" /\ inner.v # NoVal

\* C5 as stated: for every non-negative magnitude a and unit U,
\* sqrt(Scalar<U>(a).pow2()) is accepted, has unit U and a magnitude equal
\* to a.
C5_Original ==
    OfPow2 /\ FGe(inner.v, zero) =>
        /\ ok
        /\ res.u = inner.u
        /\ FEq(res.v, inner.v)

MinNormal == Pow2(MantBits - 1)

\* The square of a is computed without overflow and without underflow: a is
\* zero or +infinity, or a*a is a finite normal double.
SquareInRange(a) ==
    \/ a = infP
    \/ IsFin(a) /\ a.n = 0
    \/ IsFin(a) /\ IsFin(FMul(a, a)) /\ FMul(a, a).n >= MinNormal

\* C5, amended: for every non-negative magnitude a and unit U,
\* sqrt(Scalar<U>(a).pow2()) is accepted and has unit U; its magnitude equals
\* a provided a*a neither overflows (a finite a with an infinite square) nor
\* underflows (a non-zero a with a zero or subnormal square).
C5_SqrtPow2RoundTrip ==
    OfPow2 /\ FGe(inner.v, zero) =>
        /\ ok
        /\ res.kind = "scalar"
        /\ res.u = inner.u
        /\ SquareInRange(inner.v) => FEq(res.v, inner.v)

C5_Witness ==
    /\ OfPow2
    /\ ok
    /\ inner = Scalar(L, Lit(3))
    /\ x.u = SIUnitMul(L, 2)
    /\ res = ScalarRes(L, Lit(3))

\* C6 as stated: inf(dir) is +infinity if dir >= 0 and -infinity otherwise;
\* inf() equals infP().
C6_Original ==
    /\ op = "inf(dir)" => res.v = (IF FGe(x.v, zero) THEN Inf(0) ELSE Inf(1))
    /\ op = "inf()" => res.v = Inf(0)

\* C6, amended: inf(dir) is -infinity if dir < 0 and +infinity otherwise,
\* that is for dir >= 0 (zero of either sign included) and for a NaN dir;
\* inf() equals infP().
C6_InfSignDispatch ==
    /\ op = "inf(dir)" =>
        /\ ok
        /\ res.kind = "scalar"
        /\ res.u = x.u
        /\ FLt(x.v, zero) => res.v = Inf(1)
        /\ FGe(x.v, zero) \/ IsNan(x.v) => res.v = Inf(0)
    /\ op = "inf()" => res.v = Inf(0)

C6_Witness == op = "inf(dir)" /\ x.v = Lit(-3) /\ res.v = Inf(1)

\* C7: isNaN() is true of nan() and false of every other magnitude; every
\* one of <, >, <=, >=, == with a NaN operand on either side is false, and
\* != is true; in particular nan() == nan() is false.
C7_NaNSelfInequality ==
    /\ op = "nan()" => res.v.k = "nan"
    /\ op = "isNaN" => (res.b <=> x.v = nan)
    /\ op \in {"<", ">", "<=", ">=", "=="} /\ ok /\ (x.v = nan \/ t.v = nan) =>
            res.kind = "bool" /\ ~res.b
    /\ op = "!=" /\ ok /\ (x.v = nan \/ t.v = nan) => res.kind = "bool" /\ res.b

C7_Witness == op = "==" /\ ok /\ x.v = nan /\ t.v = nan /\ res = BoolRes(FALSE)

ScalarOps == {"+", "-", "*", "/", "mod", "sqrt", "abs", "pow2", "+=", "-=", "*=", "/="}

\* C9: every accepted +, -, *, /, mod, sqrt, abs, pow2 and compound
\* assignment yields a Scalar whose magnitude is a double, for all operand
\* magnitudes; a division by a zero magnitude yields a result of which
\* isInf() or isNaN() is true; the square root of a negative magnitude is a
\* NaN.
C9_NumericEdgeCases ==
    op \in ScalarOps /\ ok =>
        /\ res.kind = "scalar"
        /\ res.v \in Doubles
        /\ self.v \in Doubles
        /\ op \in {"/", "/="} /\ isZero(t.v) => isInf(res.v) \/ isNaN(res.v)
        /\ op = "sqrt" /\ FLt(x.v, zero) => isNaN(res.v)

C9_Witness ==
    /\ op = "/"
    /\ ok
    /\ x.v = Lit(1)
    /\ t.v = Fin(1, 0)
    /\ res.v = Inf(1)

\* C10: for a finite dividend a and a finite non-zero divisor b of one unit
\* U, a.mod(b) has unit U and the magnitude r = a - n*b, n being a/b
\* truncated toward zero: |r| < |b|, and r is zero or has the sign of a.
C10_ModSign ==
    op = "mod" /\ ok /\ IsFin(x.v) /\ IsFin(t.v) /\ t.v.n # 0 =>
        LET a == Val(x.v)
            b == Val(t.v)
            q == Abs(a) \div Abs(b)
            n == IF (a < 0) = (b < 0) THEN q ELSE 0 - q
            r == Val(res.v)
        IN  /\ res.kind = "scalar"
            /\ res.u = x.u
            /\ IsFin(res.v)
            /\ r = a - n * b
            /\ Abs(r) < Abs(b)
            /\ r = 0 \/ (r < 0 <=> a < 0)
            /\ res.v.s = x.v.s

C10_Witness ==
    /\ op = "mod"
    /\ ok
    /\ x.v = Lit(-4)
    /\ t.v = Lit(3)
    /\ res.v = Lit(-1)

====
